---------------------------- MODULE Spec2Model ----------------------------
(***************************************************************************)
(* Model of src/src/lib.rs: the two public-key validators                  *)
(*   mult_by_cofactor_and_validate (compressed Edwards point) and          *)
(*   decaf_decompress              (compressed Decaf point),               *)
(* together with the two unit tests that drive them.                       *)
(*                                                                         *)
(* The curve library (curve25519_dalek) is modelled on a scaled-down       *)
(* twisted Edwards curve  -x^2 + y^2 = 1 + D x^2 y^2  over GF(Fp) that has  *)
(* the same shape as Curve25519: Fp = 5 (mod 8), D a non-square, group     *)
(* order 8*l with l prime.  Here Fp = 29, D = -2, order 40 = 8 * 5.        *)
(***************************************************************************)
EXTENDS Integers, Sequences, FiniteSets, TLC

VARIABLES fn, pc, key, p, q, ret, orig, ops, calls

vars == <<fn, pc, key, p, q, ret, orig, ops, calls>>

(***************************************************************************)
(* Bounds of the model.                                                    *)
(***************************************************************************)
MaxCalls == 2

(***************************************************************************)
(* Option<T>                                                               *)
(***************************************************************************)
None == <<>>

Some(v) == <<v>>

IsSome(o) == Len(o) = 1

Unwrap(o) == o[1]

(***************************************************************************)
(* Field arithmetic of the curve library, GF(Fp).                          *)
(***************************************************************************)
Fp == 29

D == 27

Field == 0 .. (Fp - 1)

FNeg(x) == (Fp - (x % Fp)) % Fp

FSub(x, y) == ((x % Fp) + FNeg(y)) % Fp

FMul(x, y) == ((x % Fp) * (y % Fp)) % Fp

\* x^(p-2): the inverse of a non-zero element, and 0 for 0.
FInv(x) == IF x % Fp = 0 THEN 0 ELSE CHOOSE y \in Field : FMul(x, y) = 1

\* The library calls a field element negative when the low bit of its
\* canonical encoding is set.
IsNegative(x) == (x % Fp) % 2 = 1

FAbs(x) == IF IsNegative(x) THEN FNeg(x) ELSE x % Fp

HasSqrt(t) == \E r \in Field : FMul(r, r) = t % Fp

\* The non-negative square root of a square.
Sqrt(t) == CHOOSE r \in Field : FMul(r, r) = t % Fp /\ ~IsNegative(r)

SQRT_M1 == Sqrt(Fp - 1)

(***************************************************************************)
(* The Edwards group: affine points <<x, y>>.                              *)
(***************************************************************************)
Identity == <<0, 1>>

OnCurve(pt) ==
    /\ pt \in Field \X Field
    /\ FSub(FMul(pt[2], pt[2]), FMul(pt[1], pt[1]))
         = (1 + FMul(D, FMul(FMul(pt[1], pt[1]), FMul(pt[2], pt[2])))) % Fp

CurvePoints == {pt \in Field \X Field : OnCurve(pt)}

\* The unified addition law of the twisted Edwards curve with a = -1.
EdwardsAdd(a, b) ==
    LET k == FMul(D, FMul(FMul(a[1], b[1]), FMul(a[2], b[2])))
    IN  << FMul(FMul(a[1], b[2]) + FMul(b[1], a[2]), FInv(1 + k)),
           FMul(FMul(a[2], b[2]) + FMul(a[1], b[1]), FInv(FSub(1, k))) >>

AddTable == [a \in CurvePoints, b \in CurvePoints |-> EdwardsAdd(a, b)]

Add(a, b) == AddTable[a, b]

RECURSIVE ScalarMul(_, _)
ScalarMul(n, pt) == IF n = 0 THEN Identity ELSE Add(pt, ScalarMul(n - 1, pt))

IsIdentity(pt) == pt = Identity

\* constants::l, the order of the prime-order subgroup.
l == 5

\* constants::ED25519_BASEPOINT, a generator of the prime-order subgroup.
ED25519_BASEPOINT == <<8, 18>>

Scalars == 0 .. (l - 1)

(***************************************************************************)
(* CompressedEdwardsY: the Y coordinate and, in the top bit, the sign of X *)
(***************************************************************************)
YBits == 5

SignBit == 2 ^ YBits

EdwardsEncodings == 0 .. (2 * SignBit - 1)

compress_edwards(pt) == pt[2] + (IF IsNegative(pt[1]) THEN SignBit ELSE 0)

\* u = Y^2 - 1, v = dY^2 + 1, x = sqrt(u/v); fails when u/v is no square.
Decompress(k) ==
    LET Y == (k % SignBit) % Fp
        sign == (k \div SignBit) = 1
        u == FSub(FMul(Y, Y), 1)
        v == (FMul(D, FMul(Y, Y)) + 1) % Fp
        t == FMul(u, FInv(v))
    IN  IF v = 0 \/ ~HasSqrt(t) THEN None
        ELSE LET X == Sqrt(t)
             IN  Some(<< IF IsNegative(X) # sign THEN FNeg(X) ELSE X, Y >>)

(***************************************************************************)
(* The Decaf group: the even points of the curve modulo its 4-torsion, a   *)
(* group of prime order l.  A DecafPoint is held as an Edwards point       *)
(* representing its coset; the compressed encoding is canonical.           *)
(***************************************************************************)
\* (was_square, r) with r = |sqrt(u/v)| when u/v is a square and
\* r = |sqrt(i*u/v)| otherwise.
SqrtRatio(u, v) ==
    IF v % Fp = 0 THEN <<u % Fp = 0, 0>>
    ELSE LET t == FMul(u, FInv(v))
         IN  IF HasSqrt(t) THEN <<TRUE, Sqrt(t)>>
             ELSE <<FALSE, Sqrt(FMul(SQRT_M1, t))>>

INVSQRT_A_MINUS_D == SqrtRatio(1, FSub(Fp - 1, D))[2]

DecafEncodings == 0 .. (2 * SignBit - 1)

DecafCompress(pt) ==
    LET X == pt[1]
        Y == pt[2]
        T == FMul(X, Y)
        u1 == FMul(1 + Y, FSub(1, Y))
        u2 == FMul(X, Y)
        invsqrt == SqrtRatio(1, FMul(u1, FMul(u2, u2)))[2]
        den1 == FMul(invsqrt, u1)
        den2 == FMul(invsqrt, u2)
        z_inv == FMul(FMul(den1, den2), T)
        rotate == IsNegative(FMul(T, z_inv))
        x1 == IF rotate THEN FMul(Y, SQRT_M1) ELSE X
        y1 == IF rotate THEN FMul(X, SQRT_M1) ELSE Y
        den_inv == IF rotate THEN FMul(den1, INVSQRT_A_MINUS_D) ELSE den2
        y2 == IF IsNegative(FMul(x1, z_inv)) THEN FNeg(y1) ELSE y1
    IN  FAbs(FMul(den_inv, FSub(1, y2)))

DecafDecompress(s) ==
    IF s >= Fp \/ IsNegative(s) THEN None
    ELSE LET ss == FMul(s, s)
             u1 == FSub(1, ss)
             u2 == (1 + ss) % Fp
             u2_sqr == FMul(u2, u2)
             v == FSub(FNeg(FMul(D, FMul(u1, u1))), u2_sqr)
             sr == SqrtRatio(1, FMul(v, u2_sqr))
             den_x == FMul(sr[2], u2)
             den_y == FMul(FMul(sr[2], den_x), v)
             x == FAbs(FMul(2 * s, den_x))
             y == FMul(u1, den_y)
         IN  IF ~sr[1] \/ IsNegative(FMul(x, y)) \/ y = 0 THEN None
             ELSE Some(<<x, y>>)

\* CompressedDecaf::identity()
CompressedDecafIdentity == DecafCompress(Identity)

\* Equality of Decaf points is defined on the compressed form.
DecafEq(a, b) == DecafCompress(a) = DecafCompress(b)

\* The points DecafPoint::random can produce: the even points of the curve.
DecafPoints == {Add(pt, pt) : pt \in CurvePoints}

(***************************************************************************)
(* mult_by_cofactor_and_validate, lines 27-53.                             *)
(***************************************************************************)
\* Line 41: match p.is_some(); TRUE selects the arm that unwraps p.
MultBranchInverted(o) == ~IsSome(o)

MultBranchAlways(o) == TRUE

MultBranch(o) == IsSome(o)

\* Line 42: q = &p.unwrap() * &constants::l
MultProductCofactor(pt) == ScalarMul(8, pt)

MultProduct(pt) == ScalarMul(l, pt)

\* Lines 49-52: match q.is_identity() { true => Some(q), false => None }
MultResultInverted(pt) == IF IsIdentity(pt) THEN None ELSE Some(pt)

MultResultAlways(pt) == Some(pt)

MultResult(pt) == IF IsIdentity(pt) THEN Some(pt) ELSE None

(***************************************************************************)
(* decaf_decompress, lines 57-71.                                          *)
(***************************************************************************)
\* Line 62: *key == CompressedDecaf::identity()
DecafIsIdentityNever(k) == FALSE

DecafIsIdentity(k) == k = CompressedDecafIdentity

\* Lines 67-70: match p.is_some() { true => p, false => None }
DecafResultDropped(o) == None

DecafResultIdentity(o) == IF IsSome(o) THEN Some(Identity) ELSE None

DecafResult(o) == IF IsSome(o) THEN o ELSE None

(***************************************************************************)
(* The state machine: one call at a time, by a test or by any caller.      *)
(***************************************************************************)
Init ==
    /\ fn = "none"
    /\ pc = "idle"
    /\ key = 0
    /\ p = None
    /\ q = None
    /\ ret = None
    /\ orig = None
    /\ ops = {}
    /\ calls = 0

Enter(f, k, o, start) ==
    /\ pc = "idle"
    /\ calls < MaxCalls
    /\ calls' = calls + 1
    /\ fn' = f
    /\ key' = k
    /\ orig' = o
    /\ pc' = start
    /\ p' = None
    /\ q' = None
    /\ ret' = None
    /\ ops' = {}

\* test::current_design, lines 83-91: key = (a * B).compress_edwards()
TestCurrentDesign ==
    \E a \in Scalars :
        LET pt == ScalarMul(a, ED25519_BASEPOINT)
        IN  Enter("mult", compress_edwards(pt), Some(pt), "m38")

\* Any caller of mult_by_cofactor_and_validate, with untrusted bytes.
CallMult == \E k \in EdwardsEncodings : Enter("mult", k, None, "m38")

\* test::with_decaf_instead, lines 94-101: key = DecafPoint::random().compress()
TestWithDecaf ==
    \E pt \in DecafPoints : Enter("decaf", DecafCompress(pt), Some(pt), "d62")

\* Any caller of decaf_decompress, with untrusted bytes.
CallDecaf == \E k \in DecafEncodings : Enter("decaf", k, None, "d62")

\* Line 38: let p = key.decompress();
MultDecompress ==
    /\ pc = "m38"
    /\ p' = Decompress(key)
    /\ ops' = ops \cup {"decompress"}
    /\ pc' = "m41"
    /\ UNCHANGED <<fn, key, q, ret, orig, calls>>

\* Lines 41-44: match p.is_some() { true => ..., false => return None }
MultMatch ==
    /\ pc = "m41"
    /\ IF MultBranch(p)
         THEN pc' = "m42" /\ ret' = ret
         ELSE pc' = "done" /\ ret' = None
    /\ UNCHANGED <<fn, key, p, q, orig, ops, calls>>

\* Line 42: q = &p.unwrap() * &constants::l; unwrap panics on None.
MultUnwrapMul ==
    /\ pc = "m42"
    /\ IF IsSome(p)
         THEN /\ q' = Some(MultProduct(Unwrap(p)))
              /\ ops' = ops \cup {"mul"}
              /\ pc' = "m49"
         ELSE /\ pc' = "panic"
              /\ UNCHANGED <<q, ops>>
    /\ UNCHANGED <<fn, key, p, ret, orig, calls>>

\* Lines 49-52: match q.is_identity()
MultCheckIdentity ==
    /\ pc = "m49"
    /\ ops' = ops \cup {"is_identity"}
    /\ ret' = MultResult(Unwrap(q))
    /\ pc' = "done"
    /\ UNCHANGED <<fn, key, p, q, orig, calls>>

\* Lines 62-65: the identity encoding is rejected before decompression.
DecafCheckIdentity ==
    /\ pc = "d62"
    /\ IF DecafIsIdentity(key)
         THEN /\ ret' = None
              /\ pc' = "done"
              /\ ops' = ops \cup {"eq"}
              /\ p' = p
         ELSE /\ p' = DecafDecompress(key)
              /\ ops' = ops \cup {"eq", "decompress"}
              /\ pc' = "d67"
              /\ ret' = ret
    /\ UNCHANGED <<fn, key, q, orig, calls>>

\* Lines 67-70: match p.is_some()
DecafMatch ==
    /\ pc = "d67"
    /\ ret' = DecafResult(p)
    /\ pc' = "done"
    /\ UNCHANGED <<fn, key, p, q, orig, ops, calls>>

\* The call has returned; the caller goes on to its next call.
Return ==
    /\ pc = "done"
    /\ pc' = "idle"
    /\ UNCHANGED <<fn, key, p, q, ret, orig, ops, calls>>

Next ==
    \/ TestCurrentDesign
    \/ CallMult
    \/ TestWithDecaf
    \/ CallDecaf
    \/ MultDecompress
    \/ MultMatch
    \/ MultUnwrapMul
    \/ MultCheckIdentity
    \/ DecafCheckIdentity
    \/ DecafMatch
    \/ Return

Spec == Init /\ [][Next]_vars

\* A validator that has been called runs to its return: the steps of the
\* running call are taken, while nothing obliges a caller to call again.
Step ==
    \/ MultDecompress
    \/ MultMatch
    \/ MultUnwrapMul
    \/ MultCheckIdentity
    \/ DecafCheckIdentity
    \/ DecafMatch

FairSpec == Spec /\ WF_vars(Step)

(***************************************************************************)
(* Vocabulary of the properties.                                           *)
(***************************************************************************)
Returned(f) == pc = "done" /\ fn = f

PrimeOrderSubgroup == {ScalarMul(a, ED25519_BASEPOINT) : a \in Scalars}

\* A curve point whose order divides the cofactor 8 and which lies outside
\* the prime-order subgroup.
LowOrder(pt) == ScalarMul(8, pt) = Identity /\ pt \notin PrimeOrderSubgroup

(***************************************************************************)
(* Properties.                                                             *)
(***************************************************************************)
\* C1: for every scalar a, mult_by_cofactor_and_validate on the compressed
\* encoding of a*B returns Some, and the point inside equals a*B.
C1_ReturnsOriginalPoint ==
    (Returned("mult") /\ IsSome(orig)) => ret = Some(Unwrap(orig))

\* C2 as stated: for every point of the Decaf group, decaf_decompress on
\* its compressed encoding returns Some of a point equal to it.
C2_EveryDecafPointAccepted ==
    (Returned("decaf") /\ IsSome(orig))
        => (IsSome(ret) /\ DecafEq(Unwrap(ret), Unwrap(orig)))

\* C2 amended: for every point of the Decaf group other than the identity,
\* decaf_decompress on its compressed encoding returns Some of a point
\* equal to it.
C2_NonIdentityDecafPointAccepted ==
    (Returned("decaf") /\ IsSome(orig) /\ ~DecafEq(Unwrap(orig), Identity))
        => (IsSome(ret) /\ DecafEq(Unwrap(ret), Unwrap(orig)))

C2_Witness ==
    /\ Returned("decaf")
    /\ IsSome(orig)
    /\ ~DecafEq(Unwrap(orig), Identity)
    /\ IsSome(ret)
    /\ Unwrap(ret) # Unwrap(orig)

\* C3: a point returned in Some by either validator is on the curve and in
\* the prime-order subgroup: for the Edwards validator l times the point is
\* the identity; for the Decaf validator the point is an even point whose
\* l-fold multiple is the identity of the Decaf group.
C3_ReturnedPointInSubgroup ==
    (pc = "done" /\ IsSome(ret)) =>
        /\ OnCurve(Unwrap(ret))
        /\ fn = "mult" => /\ ScalarMul(l, Unwrap(ret)) = Identity
                          /\ Unwrap(ret) \in PrimeOrderSubgroup
        /\ fn = "decaf" => /\ Unwrap(ret) \in DecafPoints
                           /\ DecafEq(ScalarMul(l, Unwrap(ret)), Identity)

C3_Witness ==
    /\ Returned("decaf")
    /\ IsSome(ret)
    /\ Unwrap(ret) \notin PrimeOrderSubgroup
    /\ orig = None

\* C4: decaf_decompress on the canonical encoding of the identity returns
\* None and never decompresses the input.
C4_IdentityEncodingRejected ==
    (fn = "decaf" /\ pc # "idle" /\ key = CompressedDecafIdentity) =>
        /\ "decompress" \notin ops
        /\ pc \in {"d62", "done"}
        /\ pc = "done" => ret = None

C4_Witness ==
    /\ Returned("decaf")
    /\ key = CompressedDecafIdentity
    /\ ret = None
    /\ ops = {"eq"}

\* C5: mult_by_cofactor_and_validate on the encoding of a low-order point
\* returns None.
C5_LowOrderRejected ==
    (Returned("mult") /\ IsSome(Decompress(key))
        /\ LowOrder(Unwrap(Decompress(key)))) => ret = None

C5_Witness ==
    /\ Returned("mult")
    /\ IsSome(p)
    /\ LowOrder(Unwrap(p))
    /\ "is_identity" \in ops
    /\ ret = None

\* C6: when Edwards decompression of the input fails,
\* mult_by_cofactor_and_validate returns None and performs neither the
\* scalar multiplication nor the identity check.
C6_InvalidEncodingRejected ==
    (fn = "mult" /\ pc \notin {"idle", "m38"} /\ ~IsSome(Decompress(key))) =>
        /\ pc \in {"m41", "done"}
        /\ pc = "done" => ret = None
        /\ "mul" \notin ops
        /\ "is_identity" \notin ops

C6_Witness ==
    /\ Returned("mult")
    /\ "decompress" \in ops
    /\ ~IsSome(p)
    /\ ret = None

\* C7: both validators end in a normal return of Some or None and never
\* panic: the unwrap of line 42 is reached only with p = Some, every call
\* that has started reaches its return, and every rejection is the one
\* value None.
C7_NoPanic ==
    /\ [](/\ pc # "panic"
          /\ pc = "m42" => IsSome(p)
          /\ pc = "done" => \/ ret = None
                            \/ IsSome(ret) /\ OnCurve(Unwrap(ret)))
    /\ (pc \in {"m38", "m41", "m42", "m49", "d62", "d67"}) ~> (pc = "done")

C7_Witness ==
    /\ Returned("mult")
    /\ ret = None
    /\ "decompress" \in ops
    /\ ~IsSome(p)

C9_DecafReturnsDecompression ==
    (Returned("decaf") /\ key # CompressedDecafIdentity) =>
        /\ ret = DecafDecompress(key)
        /\ ops = {"eq", "decompress"}

C9_Witness ==
    /\ Returned("decaf")
    /\ key # CompressedDecafIdentity
    /\ IsSome(ret)
    /\ orig = None

=============================================================================
